---- MODULE Spec2Model ----
(***************************************************************************)
(* Model of the library catalogue of src/main.py: the Book record, the     *)
(* Library (an ordered list of Books backed by a JSON file) and its        *)
(* operations add_book, remove_book, find_book, display_books,            *)
(* update_status, save_books and load_books.                              *)
(*                                                                         *)
(* A Python str is a sequence of code points; every code point is written *)
(* as a one-element token: "W", "a", "1", and "SIGMA" / "sigma" /         *)
(* "fsigma" for U+03A3, U+03C3 and U+03C2.                                 *)
(***************************************************************************)
EXTENDS Integers, Sequences, FiniteSets, TLC

VARIABLES books, store, last

vars == <<books, store, last>>

(* ------------------------------ bounds -------------------------------- *)

\* most Records the Catalog may hold (add_book is disabled beyond it)
MaxBooks == 2

(* ------------------------- Python str helpers ------------------------- *)

UpperOf == [w |-> "W", a |-> "A", l |-> "L", e |-> "E", o |-> "O", x |-> "X"]

LowerLetters == DOMAIN UpperOf

UpperLetters == {UpperOf[c] : c \in LowerLetters}

\* the code points that Unicode calls cased
Cased(c) == c \in LowerLetters \cup UpperLetters \cup {"SIGMA", "sigma", "fsigma"}

\* the simple lower-case mapping of the upper-case letters
LowerOf == [c \in UpperLetters |-> CHOOSE d \in LowerLetters : UpperOf[d] = c]

\* the simple lower-case mapping of one code point
LowerChar(c) == IF c \in UpperLetters THEN LowerOf[c] ELSE c

\* str.lower(): the simple mapping, except U+03A3, which becomes the final
\* sigma U+03C2 when a cased letter precedes it and none follows it
lower(s) ==
    [i \in 1..Len(s) |->
        IF s[i] = "SIGMA"
        THEN IF /\ i > 1
                /\ Cased(s[i - 1])
                /\ (i = Len(s) \/ ~Cased(s[i + 1]))
             THEN "fsigma"
             ELSE "sigma"
        ELSE LowerChar(s[i])]

\* a in b, for two str
StrIn(a, b) ==
    \E i \in 0..(Len(b) - Len(a)) : \A j \in 1..Len(a) : b[i + j] = a[j]

DigitChars == <<"0", "1", "2", "3", "4", "5", "6", "7", "8", "9">>

RECURSIVE DecStr(_)
\* str(n) for an int n >= 0
DecStr(n) ==
    IF n < 10 THEN <<DigitChars[n + 1]>>
    ELSE Append(DecStr(n \div 10), DigitChars[(n % 10) + 1])

\* a year is held as read: an int or a str
PyInt(n) == [t |-> "int", n |-> n, s |-> <<>>]

PyText(s) == [t |-> "str", n |-> 0, s |-> s]

\* str(book.year)
str(y) == IF y.t = "int" THEN DecStr(y.n) ELSE y.s

(* ----------------------------- uuid module ---------------------------- *)

\* hex digits of a UUID's text (32 in the library, scaled down here)
UuidHexLen == 2

HexChars == <<"0", "1", "2", "3", "4", "5", "6", "7", "8", "9",
              "a", "b", "c", "d", "e", "f">>

HexUpper == [a |-> "A", b |-> "B", c |-> "C", d |-> "D", e |-> "E", f |-> "F"]

\* the value int() gives each hex digit, in either case
HexDigits ==
    [c \in {HexChars[k] : k \in 1..16} \cup {HexUpper[d] : d \in DOMAIN HexUpper} |->
        IF \E k \in 1..16 : HexChars[k] = c
        THEN (CHOOSE k \in 1..16 : HexChars[k] = c) - 1
        ELSE (CHOOSE k \in 1..16 : \E d \in DOMAIN HexUpper :
                 HexUpper[d] = c /\ HexChars[k] = d) - 1]

\* the value of one hex digit, -1 when c is none
HexVal(c) == IF c \in DOMAIN HexDigits THEN HexDigits[c] ELSE -1

RECURSIVE StripBraces(_)
\* hex.strip('{}')
StripBraces(s) ==
    IF s = <<>> THEN s
    ELSE IF Head(s) \in {"{", "}"} THEN StripBraces(Tail(s))
    ELSE IF s[Len(s)] \in {"{", "}"} THEN StripBraces(SubSeq(s, 1, Len(s) - 1))
    ELSE s

\* hex.replace('-', '')
NoHyphens(s) == SelectSeq(s, LAMBDA c : c # "-")

RECURSIVE HexInt(_)
\* int(hex, 16) of a sequence of hex digits
HexInt(s) ==
    IF s = <<>> THEN 0
    ELSE 16 * HexInt(SubSeq(s, 1, Len(s) - 1)) + HexVal(s[Len(s)])

\* uuid.UUID(text): the UUID object, or ValueError
UUID(text) ==
    LET hex == NoHyphens(StripBraces(text))
    IN  IF Len(hex) # UuidHexLen \/ \E i \in 1..Len(hex) : HexVal(hex[i]) < 0
        THEN [ok |-> FALSE, int |-> 0]
        ELSE [ok |-> TRUE, int |-> HexInt(hex)]

RECURSIVE HexText(_, _)
\* '%0<w>x' % n
HexText(n, w) ==
    IF w = 0 THEN <<>>
    ELSE Append(HexText(n \div 16, w - 1), HexChars[(n % 16) + 1])

\* str(uuid.UUID(int=n)): lower-case hex, hyphenated
UuidStr(n) ==
    LET h == HexText(n, UuidHexLen)
    IN  <<h[1], "-">> \o SubSeq(h, 2, Len(h))

\* the values uuid.uuid4() may draw
Uuid4Values == {10, 11, 27}

\* str(uuid.uuid4())
Uuid4Strs == {UuidStr(n) : n \in Uuid4Values}

\* a == b in Python for objects that may be of different types: a str and
\* a UUID object are never equal
PyStr(s) == [t |-> "str", s |-> s, int |-> 0]

PyUuid(n) == [t |-> "UUID", s |-> <<>>, int |-> n]

PyEq(a, b) == IF a.t # b.t THEN FALSE ELSE a = b

(* -------------------------------- Book -------------------------------- *)

\* the two status texts, each written as one token
InStock == <<"in stock">>

CheckedOut == <<"checked out">>

\* variant: the default id is drawn once, when the class is defined, so
\* every Book made without an id gets the same one
BookSharedId(title, author, year, id, status, fresh) ==
    [id     |-> IF id = <<>> THEN UuidStr(10) ELSE id,
     title  |-> title,
     author |-> author,
     year   |-> year,
     status |-> status]

\* Book.__init__: id or str(uuid.uuid4()); fresh is what uuid4 draws
Book(title, author, year, id, status, fresh) ==
    [id     |-> IF id = <<>> THEN fresh ELSE id,
     title  |-> title,
     author |-> author,
     year   |-> year,
     status |-> status]

(* ------------------------------ json ---------------------------------- *)

\* JSON values: strings, numbers, null, objects (member name -> scalar) and
\* arrays
JString(s) == [j |-> "string", s |-> s, n |-> 0]

JNumber(n) == [j |-> "number", s |-> <<>>, n |-> n]

JNull == [j |-> "null", s |-> <<>>, n |-> 0]

JObject(o) == [j |-> "object", o |-> o]

JArray(a) == [j |-> "array", a |-> a]

\* the store file: absent, zero bytes, bytes that are no JSON text, or the
\* text of a JSON document
FileAbsent == [f |-> "absent"]

FileEmpty == [f |-> "empty"]

FileGarbage == [f |-> "garbage"]

FileJson(doc) == [f |-> "json", doc |-> doc]

\* variant: every attribute is written as text
ToJsonAsText(v) == JString(str(v))

\* json.dump of one attribute: a str as a JSON string, an int as a number
ToJson(v) == IF v.t = "int" THEN JNumber(v.n) ELSE JString(v.s)

\* json.load of one scalar: a JSON number as an int, a string as a str
FromJson(v) == IF v.j = "number" THEN PyInt(v.n) ELSE PyText(v.s)

\* vars(book), dumped: the five attributes in the order __init__ sets them
BookToJson(b) ==
    JObject([id     |-> JString(b.id),
             title  |-> JString(b.title),
             author |-> JString(b.author),
             year   |-> ToJson(b.year),
             status |-> JString(b.status)])

\* save_books: the whole list, written over the file
save_books(bs) == FileJson(JArray([i \in 1..Len(bs) |-> BookToJson(bs[i])]))

\* Book(**book_data) raises TypeError unless book_data is a mapping that
\* names title, author and year and nothing but the five parameters
BookArgsOk(item) ==
    /\ item.j = "object"
    /\ {"title", "author", "year"} \subseteq DOMAIN item.o
    /\ DOMAIN item.o \subseteq {"id", "title", "author", "year", "status"}

\* Book(**book_data): an id that is missing, null or "" is drawn afresh, a
\* missing status is the default
BookFromJson(item, fresh) ==
    Book(item.o.title.s, item.o.author.s, FromJson(item.o.year),
         IF "id" \in DOMAIN item.o THEN item.o.id.s ELSE <<>>,
         IF "status" \in DOMAIN item.o THEN item.o.status.s ELSE InStock,
         fresh)

\* load_books: FileNotFoundError and JSONDecodeError give the empty list,
\* any other exception leaves the function; rnd[i] is the i-th uuid4 draw
load_books(file, rnd) ==
    IF file.f \in {"absent", "empty", "garbage"}
    THEN [books |-> <<>>, exc |-> "none"]
    ELSE LET data == file.doc
         IN  CASE data.j = "array" ->
                    IF \A i \in 1..Len(data.a) : BookArgsOk(data.a[i])
                    THEN [books |-> [i \in 1..Len(data.a) |->
                                        BookFromJson(data.a[i], rnd[i])],
                          exc |-> "none"]
                    ELSE [books |-> <<>>, exc |-> "TypeError"]
               [] data.j = "object" ->
                    IF DOMAIN data.o = {}
                    THEN [books |-> <<>>, exc |-> "none"]
                    ELSE [books |-> <<>>, exc |-> "TypeError"]
               [] data.j = "string" ->
                    IF data.s = <<>>
                    THEN [books |-> <<>>, exc |-> "none"]
                    ELSE [books |-> <<>>, exc |-> "TypeError"]
               [] OTHER -> [books |-> <<>>, exc |-> "TypeError"]

(* ------------------------------ Library ------------------------------- *)

\* what a handler leaves behind: the list, the file, whether save_books
\* ran, the message printed and the Books printed
Outcome(bs, st, saved, msg, found) ==
    [books |-> bs, store |-> st, saved |-> saved, msg |-> msg, found |-> found]

\* self.books without its i-th element
RemoveAt(bs, i) == SubSeq(bs, 1, i - 1) \o SubSeq(bs, i + 1, Len(bs))

\* variant: the new Book is appended and the file is left as it was
add_book_unsaved(bs, st, title, author, year, fresh) ==
    LET nbs == Append(bs, Book(title, author, year, <<>>, InStock, fresh))
    IN  Outcome(nbs, st, FALSE, "added", <<>>)

\* variant: the new Book is put first
add_book_front(bs, st, title, author, year, fresh) ==
    LET nbs == <<Book(title, author, year, <<>>, InStock, fresh)>> \o bs
    IN  Outcome(nbs, save_books(nbs), TRUE, "added", <<>>)

\* add_book: a new Book with a drawn id, appended, then saved
add_book(bs, st, title, author, year, fresh) ==
    LET nbs == Append(bs, Book(title, author, year, <<>>, InStock, fresh))
    IN  Outcome(nbs, save_books(nbs), TRUE, "added", <<>>)

\* variant: every Book whose id is book_id goes
remove_book_all(bs, st, book_id) ==
    IF \E i \in 1..Len(bs) : bs[i].id = book_id
    THEN LET nbs == SelectSeq(bs, LAMBDA b : b.id # book_id)
         IN  Outcome(nbs, save_books(nbs), TRUE, "removed", <<>>)
    ELSE Outcome(bs, st, FALSE, "not found", <<>>)

\* remove_book: the first Book whose str(id) is book_id goes, then a save;
\* none: nothing is written
remove_book(bs, st, book_id) ==
    IF \E i \in 1..Len(bs) : bs[i].id = book_id
    THEN LET i == CHOOSE k \in 1..Len(bs) :
                     /\ bs[k].id = book_id
                     /\ \A m \in 1..(k - 1) : bs[m].id # book_id
             nbs == RemoveAt(bs, i)
         IN  Outcome(nbs, save_books(nbs), TRUE, "removed", <<>>)
    ELSE Outcome(bs, st, FALSE, "not found", <<>>)

\* variant: the title is compared as it is written
SelectedRawTitle(b, query) ==
    \/ StrIn(lower(query), b.title)
    \/ StrIn(lower(query), lower(b.author))
    \/ query = str(b.year)

\* the filter of find_book
Selected(b, query) ==
    \/ StrIn(lower(query), lower(b.title))
    \/ StrIn(lower(query), lower(b.author))
    \/ query = str(b.year)

\* find_book: the Books the filter keeps, in list order
find_book(bs, st, query) ==
    LET found_books == SelectSeq(bs, LAMBDA b : Selected(b, query))
    IN  Outcome(bs, st, FALSE,
                IF found_books # <<>> THEN "found" ELSE "none found",
                found_books)

\* display_books
display_books(bs, st) ==
    Outcome(bs, st, FALSE, IF bs = <<>> THEN "empty" ELSE "list", bs)

allowed_statuses == {InStock, CheckedOut}

\* variant: the status is not checked and ids are compared as text
update_status_unchecked(bs, st, book_id, status) ==
    LET book_id_uuid == UUID(book_id)
        hit(k) == bs[k].id = UuidStr(book_id_uuid.int)
    IN  IF ~book_id_uuid.ok
        THEN Outcome(bs, st, FALSE, "bad id", <<>>)
        ELSE IF \E k \in 1..Len(bs) : hit(k)
        THEN LET i == CHOOSE k \in 1..Len(bs) :
                         hit(k) /\ \A m \in 1..(k - 1) : ~hit(m)
                 nbs == [bs EXCEPT ![i].status = status]
             IN  Outcome(nbs, save_books(nbs), TRUE, "updated", <<>>)
        ELSE Outcome(bs, st, FALSE, "not found", <<>>)

\* update_status: the id must parse as a UUID, the status must be allowed;
\* then the first Book whose id == the UUID object gets the status and the
\* list is saved
update_status(bs, st, book_id, status) ==
    LET book_id_uuid == UUID(book_id)
        hit(k) == PyEq(PyStr(bs[k].id), PyUuid(book_id_uuid.int))
    IN  IF ~book_id_uuid.ok
        THEN Outcome(bs, st, FALSE, "bad id", <<>>)
        ELSE IF status \notin allowed_statuses
        THEN Outcome(bs, st, FALSE, "bad status", <<>>)
        ELSE IF \E k \in 1..Len(bs) : hit(k)
        THEN LET i == CHOOSE k \in 1..Len(bs) :
                         hit(k) /\ \A m \in 1..(k - 1) : ~hit(m)
                 nbs == [bs EXCEPT ![i].status = status]
             IN  Outcome(nbs, save_books(nbs), TRUE, "updated", <<>>)
        ELSE Outcome(bs, st, FALSE, "not found", <<>>)

(* ------------------------------ inputs -------------------------------- *)

\* the (title, author, year) triples typed at the prompt or passed by a
\* caller: the year as an int or as the text read from input()
BookInputs ==
    {<<<<"W", "a">>, <<"L", "e", "o">>, PyInt(1869)>>,
     <<<<"W", "a">>, <<"w", "a", "x">>, PyText(<<"1", "8", "7", "7">>)>>,
     <<<<"O", "SIGMA">>, <<"L", "e", "o">>, PyText(<<"1", "8", "7", "7">>)>>,
     <<<<"O", "SIGMA">>, <<"w", "a", "x">>, PyInt(1869)>>}

Titles == {in[1] : in \in BookInputs}

Queries ==
    Titles \cup {<<"SIGMA">>, <<"l", "E">>, <<>>,
                 <<"1", "8", "6", "9">>, <<"1", "8", "7", "7">>, <<"1", "8">>}

\* ids typed at the prompt: the drawn ones, another text of one of these
\* UUIDs, and a text that is no UUID
IdTexts == Uuid4Strs \cup {<<"0", "-", "A">>, <<"n", "o">>}

StatusTexts == {InStock, CheckedOut, <<"lost">>}

\* records found in a store file written by an earlier session or by hand
Rec1 ==
    [id |-> JString(UuidStr(10)), title |-> JString(<<"W", "a">>),
     author |-> JString(<<"L", "e", "o">>), year |-> JNumber(1869),
     status |-> JString(InStock)]

Rec2 ==
    [id |-> JString(UuidStr(11)), title |-> JString(<<"O", "SIGMA">>),
     author |-> JString(<<"L", "e", "o">>),
     year |-> JString(<<"1", "8", "7", "7">>), status |-> JString(CheckedOut)]

\* the id of Rec1 again
Rec1Twin ==
    [id |-> JString(UuidStr(10)), title |-> JString(<<"O", "SIGMA">>),
     author |-> JString(<<"w", "a", "x">>), year |-> JNumber(1869),
     status |-> JString(InStock)]

RecNoId ==
    [title |-> JString(<<"W", "a">>), author |-> JString(<<"L", "e", "o">>),
     year |-> JNumber(1869), status |-> JString(<<"lost">>)]

RecNullId ==
    [id |-> JNull, title |-> JString(<<"W", "a">>),
     author |-> JString(<<"w", "a", "x">>), year |-> JNumber(1869)]

RecNoYear ==
    [id |-> JString(UuidStr(10)), title |-> JString(<<"W", "a">>),
     author |-> JString(<<"L", "e", "o">>), status |-> JString(InStock)]

RecExtra ==
    [id |-> JString(UuidStr(10)), title |-> JString(<<"W", "a">>),
     author |-> JString(<<"L", "e", "o">>), year |-> JNumber(1869),
     status |-> JString(InStock), pages |-> JNumber(7)]

\* the store files a session may start from
StoreFiles ==
    {FileAbsent, FileEmpty, FileGarbage,
     FileJson(JArray(<<>>)),
     FileJson(JArray(<<JObject(Rec1)>>)),
     FileJson(JArray(<<JObject(Rec1), JObject(Rec2)>>)),
     FileJson(JArray(<<JObject(Rec1), JObject(Rec1Twin)>>)),
     FileJson(JArray(<<JObject(RecNoId)>>)),
     FileJson(JArray(<<JObject(Rec2), JObject(RecNullId)>>)),
     FileJson(JArray(<<JObject(RecNoYear)>>)),
     FileJson(JArray(<<JObject(RecExtra)>>)),
     FileJson(JArray(<<JNumber(5)>>)),
     FileJson(JObject(<<>>)),
     FileJson(JObject([books |-> JNull])),
     FileJson(JString(<<>>)),
     FileJson(JNull)}

(* ------------------------------- state -------------------------------- *)

NoYear == PyText(<<>>)

\* the call last made and what it left behind; after_add tells that the
\* call before it was add_book with the title this call searches for
Call(op, text, author, year, status, msg, found, saved, exc, after_add) ==
    [op |-> op, text |-> text, author |-> author, year |-> year,
     status |-> status, msg |-> msg, found |-> found, saved |-> saved,
     exc |-> exc, after_add |-> after_add]

Ids(bs) == {bs[i].id : i \in 1..Len(bs)}

\* the number of items of a store file
ItemCount(file) ==
    IF file.f = "json" /\ file.doc.j = "array" THEN Len(file.doc.a) ELSE 0

\* the items of a store file that name no usable id
NeedsId(file) ==
    IF file.f = "json" /\ file.doc.j = "array"
    THEN {i \in 1..Len(file.doc.a) :
            /\ BookArgsOk(file.doc.a[i])
            /\ ("id" \notin DOMAIN file.doc.a[i].o \/ file.doc.a[i].o.id.s = <<>>)}
    ELSE {}

\* the ids a store file names
FileIds(file) ==
    IF file.f = "json" /\ file.doc.j = "array"
    THEN {file.doc.a[i].o.id.s : i \in {k \in 1..Len(file.doc.a) :
            BookArgsOk(file.doc.a[k]) /\ "id" \in DOMAIN file.doc.a[k].o}}
    ELSE {}

\* the uuid4 draws of one load: one per item in need, each unlike every id
\* in use and every other draw
Draws(file) ==
    {rnd \in [1..ItemCount(file) -> Uuid4Strs \cup {<<>>}] :
        /\ \A i \in 1..ItemCount(file) : (rnd[i] # <<>>) <=> (i \in NeedsId(file))
        /\ \A i \in NeedsId(file) : rnd[i] \notin FileIds(file)
        /\ \A i, k \in NeedsId(file) : rnd[i] = rnd[k] => i = k}

\* Library.__init__: self.books = self.load_books()
Library(file, rnd) == load_books(file, rnd)

Init ==
    /\ store \in StoreFiles
    /\ \E rnd \in Draws(store) :
          /\ books = Library(store, rnd).books
          /\ last = Call("construct", <<>>, <<>>, NoYear, <<>>, "", <<>>, FALSE,
                         Library(store, rnd).exc, FALSE)

\* a Library object exists
Alive == last.exc = "none"

\* a later Library(filename) on the same file
Construct ==
    /\ \E rnd \in Draws(store) :
          /\ books' = Library(store, rnd).books
          /\ last' = Call("construct", <<>>, <<>>, NoYear, <<>>, "", <<>>, FALSE,
                          Library(store, rnd).exc, FALSE)
    /\ UNCHANGED store

AddBook ==
    /\ Alive
    /\ Len(books) < MaxBooks
    /\ \E in \in BookInputs, fresh \in Uuid4Strs \ Ids(books) :
          \E r \in {add_book(books, store, in[1], in[2], in[3], fresh)} :
              /\ books' = r.books
              /\ store' = r.store
              /\ last' = Call("add", in[1], in[2], in[3], <<>>, r.msg, r.found,
                              r.saved, "none", FALSE)

RemoveBook ==
    /\ Alive
    /\ \E book_id \in IdTexts :
          \E r \in {remove_book(books, store, book_id)} :
              /\ books' = r.books
              /\ store' = r.store
              /\ last' = Call("remove", book_id, <<>>, NoYear, <<>>, r.msg,
                              r.found, r.saved, "none", FALSE)

FindBook ==
    /\ Alive
    /\ \E query \in Queries :
          \E r \in {find_book(books, store, query)} :
              /\ books' = r.books
              /\ store' = r.store
              /\ last' = Call("find", query, <<>>, NoYear, <<>>, r.msg, r.found,
                              r.saved, "none",
                              last.op = "add" /\ last.text = query)

DisplayBooks ==
    /\ Alive
    /\ \E r \in {display_books(books, store)} :
           /\ books' = r.books
           /\ store' = r.store
           /\ last' = Call("display", <<>>, <<>>, NoYear, <<>>, r.msg, r.found,
                           r.saved, "none", FALSE)

UpdateStatus ==
    /\ Alive
    /\ \E book_id \in IdTexts, status \in StatusTexts :
          \E r \in {update_status(books, store, book_id, status)} :
              /\ books' = r.books
              /\ store' = r.store
              /\ last' = Call("update", book_id, <<>>, NoYear, status, r.msg,
                              r.found, r.saved, "none", FALSE)

Next ==
    \/ Construct
    \/ AddBook
    \/ RemoveBook
    \/ FindBook
    \/ DisplayBooks
    \/ UpdateStatus

Spec == Init /\ [][Next]_vars

(* ------------------------ vocabulary of the claims -------------------- *)

\* no two Records of bs have the same id
Unique(bs) == \A i, k \in 1..Len(bs) : bs[i].id = bs[k].id => i = k

\* ns is bs with its i-th Record taken out and the others in their order
Without(bs, i, ns) ==
    /\ Len(ns) = Len(bs) - 1
    /\ \A k \in 1..Len(ns) : ns[k] = IF k < i THEN bs[k] ELSE bs[k + 1]

\* the first position of bs that holds the id, 0 when none does
FirstWith(bs, id) ==
    IF \E i \in 1..Len(bs) : bs[i].id = id
    THEN CHOOSE i \in 1..Len(bs) :
            bs[i].id = id /\ \A m \in 1..(i - 1) : bs[m].id # id
    ELSE 0

\* the letter a code point writes, whatever its case
Letter(c) ==
    IF c \in {"SIGMA", "sigma", "fsigma"} THEN "sigma"
    ELSE IF c \in UpperLetters THEN LowerOf[c]
    ELSE c

\* q is a substring of t when case is ignored
SubstringAnyCase(q, t) ==
    \E i \in 0..(Len(t) - Len(q)) :
        \A j \in 1..Len(q) : Letter(t[i + j]) = Letter(q[j])

RECURSIVE Numeral(_)
\* the number a sequence of decimal digits writes
Numeral(q) ==
    IF q = <<>> THEN 0
    ELSE 10 * Numeral(SubSeq(q, 1, Len(q) - 1))
         + (CHOOSE d \in 0..9 : DigitChars[d + 1] = q[Len(q)])

\* q is the decimal string of the year y
DecimalOf(q, y) ==
    IF y.t = "str" THEN q = y.s
    ELSE /\ q # <<>>
         /\ \A j \in 1..Len(q) : \E d \in 0..9 : DigitChars[d + 1] = q[j]
         /\ (Len(q) > 1 => q[1] # "0")
         /\ Numeral(q) = y.n

\* the Record b qualifies for the query q
Qualifies(b, q) ==
    \/ SubstringAnyCase(q, b.title)
    \/ SubstringAnyCase(q, b.author)
    \/ DecimalOf(q, b.year)

\* the store parses as the expected format: the text of an array of
\* objects
ExpectedFormat(file) ==
    /\ file.f = "json"
    /\ file.doc.j = "array"
    /\ \A i \in 1..Len(file.doc.a) : file.doc.a[i].j = "object"

(* ------------------------------- claims ------------------------------- *)

\* C1: update_status with a well-formed UUID text that is the id of a held
\* Record and an allowed status sets that Record's status, changes nothing
\* else and saves the whole list.
C1_UpdateSetsStatus ==
    [][(/\ last'.op = "update"
        /\ UUID(last'.text).ok
        /\ last'.text \in Ids(books)
        /\ last'.status \in {InStock, CheckedOut})
       => /\ books' = [books EXCEPT ![FirstWith(books, last'.text)].status =
                                       last'.status]
          /\ last'.saved
          /\ store' = save_books(books')]_vars

\* C2: update_status with an id that is no well-formed UUID text, or with a
\* status outside the two allowed ones, leaves the list as it was and does
\* not write the store.
C2_InvalidUpdateChangesNothing ==
    [][(/\ last'.op = "update"
        /\ (~UUID(last'.text).ok \/ last'.status \notin {InStock, CheckedOut}))
       => /\ books' = books
          /\ store' = store
          /\ ~last'.saved]_vars

\* C2 witness: a disallowed status was given for the id of a held Record.
C2_Witness ==
    /\ last.op = "update"
    /\ last.status \notin {InStock, CheckedOut}
    /\ last.text \in Ids(books)
    /\ last.msg = "bad status"

\* C3: remove_book with the id of a held Record takes out exactly the first
\* Record with that id, keeps the others in order and saves; with an id no
\* Record has it changes nothing and does not write the store.
C3_RemoveFirstMatch ==
    [][last'.op = "remove"
       => IF last'.text \in Ids(books)
          THEN /\ Len(books') = Len(books) - 1
               /\ Without(books, FirstWith(books, last'.text), books')
               /\ last'.saved
               /\ store' = save_books(books')
          ELSE /\ books' = books
               /\ store' = store
               /\ ~last'.saved]_vars

\* C3 witness: a Record was removed and another one stays.
C3_Witness ==
    /\ last.op = "remove"
    /\ last.msg = "removed"
    /\ Len(books) >= 1
    /\ last.text \notin Ids(books)

C5_LoadNeverFails ==
    last.op = "construct"
        => /\ last.exc = "none"
           /\ (~ExpectedFormat(store) => books = <<>>)

\* C6: saving the list a Library holds and loading the file again gives the
\* same Records in the same order, each with the same five fields.
C6_RoundTrip ==
    Alive => /\ Draws(save_books(books)) # {}
             /\ \A rnd \in Draws(save_books(books)) :
                   load_books(save_books(books), rnd)
                       = [books |-> books, exc |-> "none"]

\* C6 witness: two Records are held, one with an int year and one with a
\* year read as text, and the list has been saved.
C6_Witness ==
    /\ last.saved
    /\ Len(books) = 2
    /\ \E i, k \in 1..2 : books[i].year.t = "int" /\ books[k].year.t = "str"

\* C7: find_book reports exactly the Records for which the query is a
\* substring of the title or of the author when case is ignored, or is the
\* decimal string of the year, in list order; none qualifying, it reports
\* no match.
C7_FindSelects ==
    last.op = "find"
        => /\ last.found = SelectSeq(books, LAMBDA b : Qualifies(b, last.text))
           /\ (last.found = <<>> <=> last.msg = "none found")

\* C8 as claimed: find_book on the title just added reports exactly one
\* Record, the added one.
C8_AddThenFindOne ==
    (last.op = "find" /\ last.after_add)
        => /\ Len(last.found) = 1
           /\ last.found[1] = books[Len(books)]
           /\ last.found[1].title = last.text

\* C8 amended: find_book on the title just added reports the added Record
\* last, with the added title, author and year and an id that is not empty
\* and is no other held Record's; it reports that Record alone exactly when
\* the filter selects no Record held before.
C8_AddThenFindAdded ==
    [][(last.op = "add" /\ last'.op = "find" /\ last'.text = last.text)
       => LET n == Len(last'.found)
              m == Len(books)
          IN  /\ n >= 1
              /\ last'.found[n] = books[m]
              /\ books[m].title = last.text
              /\ books[m].author = last.author
              /\ books[m].year = last.year
              /\ books[m].id # <<>>
              /\ \A i \in 1..(m - 1) : books[i].id # books[m].id
              /\ (n = 1 <=> \A i \in 1..(m - 1) : ~Selected(books[i], last.text))
              /\ books' = books]_vars

\* C8 witness: the title just added was searched for and two Records were
\* reported.
C8_Witness ==
    /\ last.op = "find"
    /\ last.after_add
    /\ Len(last.found) = 2

\* C9 as claimed: no two held Records ever have the same id.
C9_IdsUnique == Alive => Unique(books)

\* C9 amended: no call makes two ids equal: if the held ids differ before a
\* call they differ after it, a Library built on a store whose records
\* name pairwise different ids holds pairwise different ids, and add_book,
\* remove_book, update_status, find_book and display_books leave the id of
\* every Record that stays as it was.
C9_IdsStayUnique ==
    [][/\ Unique(books) => Unique(books')
       /\ (last'.op = "construct" /\ last'.exc = "none"
            /\ Cardinality(FileIds(store) \ {<<>>}) + Cardinality(NeedsId(store))
                 = ItemCount(store))
           => Unique(books')
       /\ last'.op = "add"
           => [i \in 1..Len(books) |-> books'[i].id]
                = [i \in 1..Len(books) |-> books[i].id]
       /\ last'.op = "remove" /\ last'.saved
           => \E i \in 1..Len(books) :
                 [k \in 1..Len(books') |-> books'[k].id]
                   = [k \in 1..(Len(books) - 1) |->
                        IF k < i THEN books[k].id ELSE books[k + 1].id]
       /\ (last'.op \in {"update", "find", "display"}
            \/ (last'.op = "remove" /\ ~last'.saved))
           => [i \in 1..Len(books') |-> books'[i].id]
                = [i \in 1..Len(books) |-> books[i].id]]_vars

\* C9 witness: a second Record was added to a list with one id; the two ids
\* differ.
C9_Witness ==
    /\ last.op = "add"
    /\ Len(books) = 2
    /\ books[1].id # books[2].id

\* C10: add_book makes the list one longer by appending a Record with the
\* given title, author and year and the default status; the Records held
\* before keep their fields and places, and remove_book keeps the others
\* in their order.
C10_AddAppends ==
    [][/\ last'.op = "add"
           => /\ Len(books') = Len(books) + 1
              /\ SubSeq(books', 1, Len(books)) = books
              /\ books'[Len(books')].title = last'.text
              /\ books'[Len(books')].author = last'.author
              /\ books'[Len(books')].year = last'.year
              /\ books'[Len(books')].status = InStock
       /\ last'.op = "remove"
           => \/ books' = books
              \/ \E i \in 1..Len(books) : Without(books, i, books')]_vars

\* C10 witness: add_book put a second Record behind a first one.
C10_Witness ==
    /\ last.op = "add"
    /\ Len(books) = 2
    /\ books[2].title = last.text
    /\ books[2].status = InStock

====
